---- MODULE Spec2Model ----
(***************************************************************************)
(* Model of the three data clients of this repository:                     *)
(*   eft_bsg_client.py  (EFTLauncher + EFTClient + main)                   *)
(*   eft_api_client.py  (EFTClient + main)                                 *)
(*   tarkov_api_client.py (TarkovDevClient + main)                         *)
(*                                                                         *)
(* A response body is a sequence of units.  A unit stands for one byte of  *)
(* the wire body or, for JSON text, for one lexical token (a brace, a      *)
(* number, a quoted string literal).  zlib framing, UTF-8 decoding and    *)
(* JSON parsing work on these sequences and can fail as the real ones do.  *)
(***************************************************************************)
EXTENDS Integers, Sequences, FiniteSets, TLC

VARIABLES
    prog,          \* which script runs: "bsg", "api" or "decode"
    pc,            \* position inside main(); "lib" while the objects are driven call by call
    token,         \* EFTLauncher.token
    game_session,  \* EFTLauncher.game_session
    request_id,    \* EFTClient.request_id (eft_bsg_client)
    session_id,    \* EFTClient.session_id (eft_api_client)
    op,            \* name of the last call made
    ret,           \* what the last call did: returned a value, or raised
    outbound,      \* the requests the last call handed to the transport (header sets)
    request_ids,   \* the GClient-RequestId values sent so far, in send order
    idx,           \* main(): index of the next entry of the endpoints list
    output,        \* the output directory: file name -> content written in this run
    report,        \* main(): what was printed for each entry processed so far
    wire,          \* the response under study (decoder study); main(): the response to the last fetch
    decoded,       \* decoder study: the outcome of the decoding path last applied
    hw_code,       \* EFTLauncher.hw_code ("" while no launcher is constructed)
    storage,       \* the files under .eft_storage: path -> content
    launchers,     \* the EFTLauncher objects constructed so far, in order of construction
    args,          \* the arguments of the last save_response / save_to_file call
    printed,       \* the line the last EFTLauncher.login printed about its outcome ("" after other calls)
    received       \* main(): the responses given to the entries processed so far

vars == <<prog, pc, token, game_session, request_id, session_id, op, ret,
          outbound, request_ids, idx, output, report, wire, decoded,
          hw_code, storage, launchers, args, printed, received>>

(***************************************************************************)
(* Bounds of the model.                                                    *)
(***************************************************************************)
MaxRequests == 3     \* client requests made through one EFTClient object
MaxEntries == 3      \* entries of the endpoints list a run iterates over
MaxLaunchers == 3    \* EFTLauncher objects constructed on one storage root
LongExtra == 1       \* how far the long garbage body exceeds the raw-text cap

(***************************************************************************)
(* Python values as they come out of json.loads.                           *)
(***************************************************************************)
PyNone == [t |-> "null", n |-> 0, s |-> "", m |-> <<>>]
Num(i) == [t |-> "num", n |-> i, s |-> "", m |-> <<>>]
Str(x) == [t |-> "str", n |-> 0, s |-> x, m |-> <<>>]
Obj(f) == [t |-> "obj", n |-> 0, s |-> "", m |-> f]
PyTrue == [t |-> "bool", n |-> 1, s |-> "", m |-> <<>>]
PyFalse == [t |-> "bool", n |-> 0, s |-> "", m |-> <<>>]
List(items) == [t |-> "list", n |-> 0, s |-> "", m |-> items]

IsDict(v) == v.t = "obj"
HasKey(v, k) == k \in DOMAIN v.m
\* dict.get(k): the value, or None when the key is missing
Get(v, k) == IF HasKey(v, k) THEN v.m[k] ELSE PyNone
\* bool(v)
Truthy(v) ==
    CASE v.t = "null" -> FALSE
      [] v.t \in {"num", "bool"} -> v.n # 0
      [] v.t = "str" -> v.s # ""
      [] OTHER -> DOMAIN v.m # {}
\* v[:k] is defined for strings and lists; anything else a response holds raises TypeError
Sliceable(v) == v.t \in {"str", "list"}

(***************************************************************************)
(* The lexicon of the bodies.                                              *)
(***************************************************************************)
Digits == <<"0", "1", "2", "3", "4", "5", "6", "7", "8", "9">>

RECURSIVE NumText(_)
NumText(n) == IF n < 10 THEN Digits[n + 1]
              ELSE NumText(n \div 10) \o Digits[(n % 10) + 1]

Nums == {0, 5, 200, 206, 209, 211}
\* the fields the tarkov.dev queries ask for, in the order of the datasets of main()
Fields == <<"items", "maps", "traders", "tasks", "hideoutStations", "bosses", "ammo", "barters">>
\* the keys of an item that main() prints
ItemKeys == <<"id", "name", "shortName", "basePrice", "avg24hPrice">>
Strings == {"", "t1", "t2", "err", "data", "access_token", "session", "errmsg"}
           \cup {Fields[i] : i \in 1..Len(Fields)} \cup {ItemKeys[i] : i \in 1..Len(ItemKeys)}
KeyOrder == <<"err", "errmsg", "data", "access_token", "session", "error", "raw", "status">>
            \o Fields \o ItemKeys

Quote(x) == "\"" \o x \o "\""
NumUnits == {NumText(n) : n \in Nums}
StrUnits == {Quote(x) : x \in Strings}
Unquote(u) == CHOOSE x \in Strings : Quote(x) = u
NumOf(u) == CHOOSE n \in Nums : NumText(n) = u

ZHeader == "x"        \* the zlib stream header (0x78 ...)
BadByte == "\\xff"    \* a byte that is not valid UTF-8
Replacement == "\\ufffd"
Space == " "
Alphabet == <<"{", "}", ":", ",", "null", Space, ZHeader, BadByte, "<", "[", "]">>
            \o [i \in 1..6 |-> NumText((<<0, 5, 200, 206, 209, 211>>)[i])]
            \o <<Quote(""), Quote("t1"), Quote("t2"), Quote("err"), Quote("data"),
                 Quote("access_token"), Quote("session"), Quote("errmsg")>>
            \o [i \in 1..Len(Fields) |-> Quote(Fields[i])]
            \o [i \in 1..Len(ItemKeys) |-> Quote(ItemKeys[i])]

Code(u) == CHOOSE i \in 1..Len(Alphabet) : Alphabet[i] = u

(***************************************************************************)
(* zlib: a stream is the header, the stored payload and a checksum of the  *)
(* payload.  Decompression of anything else is zlib.error.                 *)
(***************************************************************************)
RECURSIVE SumCodes(_, _)
SumCodes(b, i) == IF i > Len(b) THEN 0 ELSE Code(b[i]) + SumCodes(b, i + 1)

Adler(b) == Alphabet[(SumCodes(b, 1) % Len(Alphabet)) + 1]

Compress(b) == <<ZHeader>> \o b \o <<Adler(b)>>

ZlibOk(b) == /\ Len(b) >= 2
             /\ b[1] = ZHeader
             /\ b[Len(b)] = Adler(SubSeq(b, 2, Len(b) - 1))
Decompress(b) == SubSeq(b, 2, Len(b) - 1)

\* bytes.decode('utf-8') raises UnicodeDecodeError on an invalid byte
Utf8Ok(b) == \A i \in 1..Len(b) : b[i] # BadByte

(***************************************************************************)
(* json.loads / json.dumps                                                 *)
(***************************************************************************)
Fail == [ok |-> FALSE, v |-> PyNone, next |-> 0]
Parsed(v, n) == [ok |-> TRUE, v |-> v, next |-> n]

RECURSIVE SkipWs(_, _)
SkipWs(txt, i) == IF i <= Len(txt) /\ txt[i] = Space THEN SkipWs(txt, i + 1) ELSE i

RECURSIVE ParseValue(_, _), ParsePair(_, _, _), ParseItem(_, _, _)
ParseValue(txt, i) ==
    LET j == SkipWs(txt, i) IN
    IF j > Len(txt) THEN Fail
    ELSE LET u == txt[j] IN
         CASE u = "null" -> Parsed(PyNone, j + 1)
           [] u \in NumUnits -> Parsed(Num(NumOf(u)), j + 1)
           [] u \in StrUnits -> Parsed(Str(Unquote(u)), j + 1)
           [] u = "{" ->
                LET k == SkipWs(txt, j + 1) IN
                IF k <= Len(txt) /\ txt[k] = "}" THEN Parsed(Obj(<<>>), k + 1)
                ELSE ParsePair(txt, k, <<>>)
           [] u = "[" ->
                LET k == SkipWs(txt, j + 1) IN
                IF k <= Len(txt) /\ txt[k] = "]" THEN Parsed(List(<<>>), k + 1)
                ELSE ParseItem(txt, k, <<>>)
           [] OTHER -> Fail

\* one element of a list at position i, then "," and the next element, or "]"
ParseItem(txt, i, acc) ==
    LET r == ParseValue(txt, i) IN
    IF ~r.ok THEN Fail
    ELSE LET e == SkipWs(txt, r.next) IN
         IF e > Len(txt) THEN Fail
         ELSE IF txt[e] = "]" THEN Parsed(List(Append(acc, r.v)), e + 1)
         ELSE IF txt[e] = "," THEN ParseItem(txt, SkipWs(txt, e + 1), Append(acc, r.v))
         ELSE Fail

\* one "key": value member at position i, then "," and the next member, or "}"
ParsePair(txt, i, acc) ==
    IF i > Len(txt) \/ txt[i] \notin StrUnits THEN Fail
    ELSE LET c == SkipWs(txt, i + 1) IN
         IF c > Len(txt) \/ txt[c] # ":" THEN Fail
         ELSE LET r == ParseValue(txt, c + 1) IN
              IF ~r.ok THEN Fail
              ELSE LET e == SkipWs(txt, r.next)
                       \* a repeated key keeps the last value
                       acc2 == (Unquote(txt[i]) :> r.v) @@ acc
                   IN IF e > Len(txt) THEN Fail
                      ELSE IF txt[e] = "}" THEN Parsed(Obj(acc2), e + 1)
                      ELSE IF txt[e] = "," THEN ParsePair(txt, SkipWs(txt, e + 1), acc2)
                      ELSE Fail

\* json.loads succeeds: one value, and nothing but whitespace after it
JsonOk(txt) == LET r == ParseValue(txt, 1) IN r.ok /\ SkipWs(txt, r.next) > Len(txt)
Loads(txt) == ParseValue(txt, 1).v

RECURSIVE Dumps(_), DumpMembers(_, _, _), DumpItems(_, _)
Dumps(v) ==
    CASE v.t = "null" -> <<"null">>
      [] v.t = "num" -> <<NumText(v.n)>>
      [] v.t = "str" -> <<Quote(v.s)>>
      [] v.t = "list" -> <<"[">> \o DumpItems(v, 1) \o <<"]">>
      [] OTHER -> <<"{">> \o DumpMembers(v, 1, TRUE) \o <<"}">>

DumpItems(v, k) ==
    IF k > Len(v.m) THEN <<>>
    ELSE (IF k = 1 THEN <<>> ELSE <<",", Space>>) \o Dumps(v.m[k]) \o DumpItems(v, k + 1)

DumpMembers(v, k, first) ==
    IF k > Len(KeyOrder) THEN <<>>
    ELSE IF ~HasKey(v, KeyOrder[k]) THEN DumpMembers(v, k + 1, first)
    ELSE (IF first THEN <<>> ELSE <<",", Space>>)
         \o <<Quote(KeyOrder[k]), ":", Space>> \o Dumps(v.m[KeyOrder[k]])
         \o DumpMembers(v, k + 1, FALSE)

(***************************************************************************)
(* What the transport hands back: either it raised (connection refused,    *)
(* timeout), or a status and a body.                                       *)
(***************************************************************************)
RawCap == 500

Response(st, b) == [exc |-> FALSE, status |-> st, body |-> b]
TransportFailure == [exc |-> TRUE, status |-> 0, body |-> <<>>]

Returned(v) == [kind |-> "return", val |-> v, exc |-> ""]
Raised(e) == [kind |-> "raise", val |-> PyNone, exc |-> e]
NoCall == [kind |-> "none", val |-> PyNone, exc |-> ""]

\* the characters lo..hi of a text as one string
RECURSIVE Join(_, _, _)
Join(txt, lo, hi) ==
    IF lo > hi THEN ""
    ELSE IF lo = hi THEN txt[lo]
    ELSE LET mid == (lo + hi) \div 2
         IN Join(txt, lo, mid) \o Join(txt, mid + 1, hi)

\* response.text: the body as text, undecodable bytes replaced
ResponseText(b) == [i \in 1..Len(b) |-> IF b[i] = BadByte THEN Replacement ELSE b[i]]
\* response.text[:500]
RawPrefix(b) ==
    LET txt == ResponseText(b)
    IN SubSeq(txt, 1, IF Len(txt) < RawCap THEN Len(txt) ELSE RawCap)
\* response.json() of the requests library
ResponseJsonOk(b) == JsonOk(ResponseText(b))
ResponseJson(b) == Loads(ResponseText(b))

\* EFTLauncher._request, the decoding half
LauncherDecode(w) ==
    IF ZlibOk(w.body)
    THEN LET content == Decompress(w.body) IN
         IF ~Utf8Ok(content) THEN Raised("UnicodeDecodeError")
         ELSE IF ~JsonOk(content) THEN Raised("JSONDecodeError")
         ELSE Returned(Loads(content))
    ELSE IF ResponseJsonOk(w.body) THEN Returned(ResponseJson(w.body))
    ELSE Returned(Obj(("error" :> Str("Parse error"))
                      @@ ("raw" :> Str(Join(RawPrefix(w.body), 1, Len(RawPrefix(w.body)))))
                      @@ ("status" :> Num(w.status))))

\* a decoder that takes every body to be compressed
ClientDecode_NoFallback(w) ==
    IF ZlibOk(w.body) /\ Utf8Ok(Decompress(w.body)) /\ JsonOk(Decompress(w.body))
    THEN Returned(Loads(Decompress(w.body)))
    ELSE Returned(Obj("error" :> Str("zlib.error")))
\* EFTClient._request of eft_bsg_client, the decoding half
ClientDecode(w) ==
    IF ZlibOk(w.body)
    THEN LET content == Decompress(w.body) IN
         IF ~Utf8Ok(content) THEN Returned(Obj("error" :> Str("UnicodeDecodeError")))
         ELSE IF ~JsonOk(content) THEN Returned(Obj("error" :> Str("JSONDecodeError")))
         ELSE Returned(Loads(content))
    ELSE IF ResponseJsonOk(w.body) THEN Returned(ResponseJson(w.body))
    ELSE Returned(Obj("error" :> Str("JSONDecodeError")))

\* EFTClient._decompress_response of eft_api_client: the text, or UnicodeDecodeError
DecompressResponseOk(data) ==
    IF ZlibOk(data) THEN Utf8Ok(Decompress(data)) ELSE Utf8Ok(data)
DecompressResponse(data) ==
    IF ZlibOk(data) THEN Decompress(data) ELSE data

\* EFTClient._request of eft_api_client, the decoding half
ApiDecode(w) ==
    IF DecompressResponseOk(w.body) /\ JsonOk(DecompressResponse(w.body))
    THEN Returned(Loads(DecompressResponse(w.body)))
    ELSE Returned(Obj(("error" :> Str("Failed to parse response"))
                      @@ ("raw" :> Str(Join(RawPrefix(w.body), 1, Len(RawPrefix(w.body)))))))

\* TarkovDevClient._query, after the post: raise_for_status, then response.json()
QueryDecode(w) ==
    IF w.status >= 400 THEN Raised("HTTPError")
    ELSE IF ~ResponseJsonOk(w.body) THEN Raised("JSONDecodeError")
    ELSE Returned(ResponseJson(w.body))

(***************************************************************************)
(* The responses the backend is made to give.                              *)
(***************************************************************************)
TokenVals == {PyNone, Str(""), Str("t1"), Str("t2"), Num(5)}
DataVals == {PyNone, Obj(<<>>)}
            \cup {Obj("access_token" :> x) : x \in TokenVals}
            \cup {Obj("session" :> x) : x \in TokenVals}
ErrParts == {<<>>} \cup {"err" :> Num(n) : n \in {0, 209}}
DataParts == {<<>>} \cup {"data" :> d : d \in DataVals}
Envelopes == {Obj(e @@ d) : e \in ErrParts, d \in DataParts}
JsonValues == Envelopes \cup {PyNone, Num(5), Str("t1")}

LongGarbage == [i \in 1..(RawCap + LongExtra) |-> "<"]
Garbage == {<<>>, <<"<">>, <<BadByte>>, <<"{", Quote("err")>>, <<ZHeader, "<">>,
            <<"{", Quote("err"), ":", "0", ",", "}">>}
Bodies == {Dumps(v) : v \in JsonValues}
          \cup {Compress(Dumps(v)) : v \in JsonValues}
          \cup Garbage \cup {Compress(g) : g \in Garbage} \cup {LongGarbage}
Wires == {Response(200, b) : b \in Bodies} \cup {Response(502, <<"<">>)}

\* answers that refuse a login: captcha, wrong password, and a code login has no branch for
ErrorEnvelopes == {Obj("err" :> Num(n)) : n \in {206, 211, 5}}
                  \cup {Obj(("err" :> Num(5)) @@ ("errmsg" :> Str("t1")))}
LifecycleWires == Wires \cup {TransportFailure}
                  \cup {Response(200, Compress(Dumps(e))) : e \in ErrorEnvelopes}

OkEnvelope == Obj(("err" :> Num(0)) @@ ("data" :> Obj("session" :> Str("t1"))))
FetchWires == {Response(200, Compress(Dumps(OkEnvelope))),
               Response(200, Dumps(OkEnvelope)),
               Response(200, Compress(Dumps(Obj("err" :> Num(209))))),
               Response(200, Dumps(PyNone)),
               Response(200, <<"<">>),
               Response(200, Compress(<<"<">>)),
               Response(502, <<"<">>),
               TransportFailure}

\* the three decoding paths, tabulated over the responses of the model
\* the answers of api.tarkov.dev to a query for field f
Item == Obj(("id" :> Str("t1")) @@ ("name" :> Str("t1")) @@ ("shortName" :> Str("t2"))
            @@ ("basePrice" :> Num(5)) @@ ("avg24hPrice" :> Num(200)))
DataPresent(f) == {Obj("data" :> Obj(f :> List(l))) : l \in {<<>>, <<Item>>, <<Str("t1")>>}}
GraphValues(f) ==
    DataPresent(f)
    \cup {Obj(<<>>), Obj("data" :> PyNone), Obj("data" :> Obj(<<>>)),
          Obj("data" :> Obj(f :> PyNone)), List(<<>>)}
TarkovWires(f) ==
    {Response(200, Dumps(v)) : v \in GraphValues(f)}
    \cup {Response(200, <<"<">>), Response(502, <<"<">>),
          Response(404, Dumps(Obj("data" :> Obj(f :> List(<<>>))))), TransportFailure}
AllTarkovWires == UNION {TarkovWires(Fields[i]) : i \in 1..Len(Fields)}
QueryDecoded == [w \in AllTarkovWires |-> QueryDecode(w)]

AllWires == LifecycleWires \cup FetchWires
LauncherDecoded == [w \in AllWires |-> LauncherDecode(w)]
ClientDecoded == [w \in AllWires |-> ClientDecode(w)]
ApiDecoded == [w \in AllWires |-> ApiDecode(w)]

(***************************************************************************)
(* Header sets and requests.                                               *)
(***************************************************************************)
launcher_version == "14.7.2.4271"
client_version == "1.0.1.0.42625"
unity_version == "2021.3.16f1"

\* str(v), as an f-string renders it
PyStr(v) ==
    CASE v.t = "null" -> "None"
      [] v.t = "str" -> v.s
      [] v.t = "num" -> NumText(v.n)
      [] v.t = "bool" -> IF v.n = 1 THEN "True" ELSE "False"
      [] v.t = "list" -> "[...]"
      [] OTHER -> "{...}"

\* what is handed to requests.get / requests.post; timeout is None where the call names none
Request(method, path, headers, body, timeout) ==
    [method |-> method, path |-> path, headers |-> headers, body |-> body, timeout |-> timeout]
NoBody == <<>>

\* EFTLauncher._launcher_headers
LauncherHeaders(tok) ==
    LET base == ("Content-Type" :> Str("application/json"))
                @@ ("User-Agent" :> Str("BSG Launcher " \o launcher_version))
    IN IF Truthy(tok) THEN ("Authorization" :> tok) @@ base ELSE base

\* EFTLauncher._client_headers
ClientHeaders(gs) ==
    ("Content-Type" :> Str("application/json"))
    @@ ("User-Agent" :> Str("UnityPlayer/" \o unity_version \o " (UnityWebRequest/1.0, libcurl/7.52.0-DEV)"))
    @@ ("App-Version" :> Str("EFT Client " \o client_version))
    @@ ("X-Unity-Version" :> Str(unity_version))
    @@ ("Cookie" :> Str("PHPSESSID=" \o PyStr(gs)))

\* EFTClient._headers of eft_bsg_client: the counter moves, then the header set is built
\* a counter that does not move
NextRequestId_Stuck(n) == n
NextRequestId(n) == n + 1
Headers(gs, n) == ("GClient-RequestId" :> Str(PyStr(Num(NextRequestId(n))))) @@ ClientHeaders(gs)

\* EFTClient.__init__ and EFTClient._request of eft_api_client: the header set
ApiHeaders(sid) ==
    LET base == ("User-Agent" :> Str("UnityPlayer/2021.3.16f1 (UnityWebRequest/1.0, libcurl/7.84.0-DEV)"))
                @@ ("Accept" :> Str("*/*"))
                @@ ("Accept-Encoding" :> Str("deflate, gzip"))
                @@ ("Content-Type" :> Str("application/json"))
    IN IF Truthy(sid) THEN ("Cookie" :> Str("PHPSESSID=" \o PyStr(sid))) @@ base ELSE base

\* the requests library sends nothing and raises when a header value is not a string
SendRaises(headers, w) == w.exc \/ \E h \in DOMAIN headers : headers[h].t # "str"

(***************************************************************************)
(* Accounts, digests and the JSON bodies of the lifecycle requests.        *)
(***************************************************************************)
\* the accounts of the model and the password main() is configured with
Emails == {"user9073370@example.com", "user20890567@example.com", "user1@example.com"}
EMAIL == "user1@example.com"
PASSWORD == "dein_passwort"
\* hashlib.md5(x.encode()).hexdigest(), tabulated for the strings of the model
Md5Hex ==
    ("user9073370@example.com" :> "9e52abea227d2200992ed348c00b7b84")
    @@ ("user20890567@example.com" :> "9e52abea227dd52de52058a53cd916c1")
    @@ ("user1@example.com" :> "111d68d06e2d317b5a59c2c6c5bad808")
    @@ ("dein_passwort" :> "315c5784066c561abb11d0f1f54bea6a")
\* the codes _generate_hw_code can return (it draws them at random)
HwCodes == {"#1-aa", "#1-bb"}
\* the activation codes a caller passes to activate_hardware
ActivateCodes == {"CODE"}

\* EFTLauncher._md5_password
_md5_password(password) == Md5Hex[password]

\* a login that sends a freshly generated code instead of the stored one
LoginData_Regenerated(email, hw) ==
    ("email" :> Str(email)) @@ ("pass" :> Str(_md5_password(PASSWORD)))
    @@ ("hwCode" :> Str(CHOOSE h \in HwCodes : h # hw))
\* EFTLauncher.login: the body posted
LoginData(email, hw) ==
    ("email" :> Str(email)) @@ ("pass" :> Str(_md5_password(PASSWORD)))
    @@ ("hwCode" :> Str(hw))
\* EFTLauncher.activate_hardware: the body posted
ActivateData(email, hw, code) ==
    ("email" :> Str(email)) @@ ("hwCode" :> Str(hw)) @@ ("activateCode" :> Str(code))
\* EFTLauncher.start_game: the body posted
StartGameData(hw) ==
    ("version" :> Obj(("major" :> Str(client_version)) @@ ("game" :> Str("live"))
                      @@ ("backend" :> Str("6"))))
    @@ ("hwCode" :> Str(hw))
\* EFTClient.login of eft_api_client: the body posted
ApiLoginData(email) ==
    ("email" :> Str(email)) @@ ("pass" :> Str(_md5_password(PASSWORD)))
    @@ ("hwCode" :> Str("generated_hardware_code")) @@ ("captcha" :> PyNone)

(***************************************************************************)
(* EFTLauncher (eft_bsg_client)                                            *)
(***************************************************************************)
\* EFTLauncher._request
LauncherRequest(tok, w) ==
    IF SendRaises(LauncherHeaders(tok), w) THEN Raised("RequestException")
    ELSE LauncherDecoded[w]

\* EFTLauncher.login: what it reports and the token it leaves stored
login(tok, w) ==
    LET r == LauncherRequest(tok, w) IN
    IF r.kind = "raise" THEN [ret |-> r, token |-> tok]
    ELSE IF ~IsDict(r.val) THEN [ret |-> Raised("AttributeError"), token |-> tok]
    ELSE IF Get(r.val, "err") = Num(0) /\ HasKey(r.val, "data")
    THEN LET d == r.val.m["data"] IN
         IF ~IsDict(d) THEN [ret |-> Raised("AttributeError"), token |-> tok]
         ELSE LET t == Get(d, "access_token") IN
              \* the token is stored, then its first 30 characters are printed
              IF Truthy(t) /\ ~Sliceable(t) THEN [ret |-> Raised("TypeError"), token |-> t]
              ELSE [ret |-> Returned(PyTrue), token |-> t]
    ELSE [ret |-> Returned(PyFalse), token |-> tok]

\* a login that prints the same line whatever the error code
LoginPrinted_Generic(tok, w) ==
    LET r == LauncherRequest(tok, w) IN
    IF r.kind = "raise" \/ ~IsDict(r.val) THEN ""
    ELSE IF Get(r.val, "err") = Num(0) /\ HasKey(r.val, "data")
    THEN (IF IsDict(r.val.m["data"]) THEN "[+] Login erfolgreich!" ELSE "")
    ELSE "[-] Login fehlgeschlagen"
\* EFTLauncher.login: the line it prints about the outcome ("" when it raises before printing)
LoginPrinted(tok, w) ==
    LET r == LauncherRequest(tok, w) IN
    IF r.kind = "raise" \/ ~IsDict(r.val) THEN ""
    ELSE IF Get(r.val, "err") = Num(0) /\ HasKey(r.val, "data")
    THEN (IF IsDict(r.val.m["data"]) THEN "[+] Login erfolgreich!" ELSE "")
    ELSE LET err_code == Get(r.val, "err")
             err_msg == IF HasKey(r.val, "errmsg") THEN r.val.m["errmsg"] ELSE Str("Unbekannt")
         IN IF err_code = Num(209) THEN "[!] Hardware-Aktivierung erforderlich!"
            ELSE IF err_code = Num(206)
            THEN "[-] Captcha erforderlich - kann nicht automatisiert werden"
            ELSE IF err_code = Num(211) THEN "[-] Falsches Passwort"
            ELSE "[-] Login fehlgeschlagen: " \o PyStr(err_code) \o " - " \o PyStr(err_msg)

\* EFTLauncher.activate_hardware: what it reports
activate_hardware(tok, w) ==
    LET r == LauncherRequest(tok, w) IN
    IF r.kind = "raise" THEN r
    ELSE IF ~IsDict(r.val) THEN Raised("AttributeError")
    ELSE IF Get(r.val, "err") = Num(0) THEN Returned(PyTrue)
    ELSE Returned(PyFalse)

\* a start_game that goes ahead whatever is stored
HasToken_Always(tok) == TRUE
\* EFTLauncher.start_game: the guard on the stored token
HasToken(tok) == Truthy(tok)

\* EFTLauncher.start_game: what it reports, the session it leaves stored, the requests it makes
start_game(tok, gs, hw, w) ==
    IF ~HasToken(tok) THEN [ret |-> Returned(PyFalse), game_session |-> gs, out |-> <<>>]
    ELSE LET r == LauncherRequest(tok, w)
             out == <<Request("POST", "/launcher/game/start", LauncherHeaders(tok),
                              StartGameData(hw), Num(30))>>
         IN
         IF r.kind = "raise" THEN [ret |-> r, game_session |-> gs, out |-> out]
         ELSE IF ~IsDict(r.val)
         THEN [ret |-> Raised("AttributeError"), game_session |-> gs, out |-> out]
         ELSE IF Get(r.val, "err") = Num(0) /\ HasKey(r.val, "data")
         THEN LET d == r.val.m["data"] IN
              IF ~IsDict(d)
              THEN [ret |-> Raised("AttributeError"), game_session |-> gs, out |-> out]
              ELSE LET g == Get(d, "session") IN
                   IF Truthy(g) /\ ~Sliceable(g)
                   THEN [ret |-> Raised("TypeError"), game_session |-> g, out |-> out]
                   ELSE [ret |-> Returned(PyTrue), game_session |-> g, out |-> out]
         ELSE [ret |-> Returned(PyFalse), game_session |-> gs, out |-> out]

(***************************************************************************)
(* EFTClient (eft_bsg_client)                                              *)
(***************************************************************************)
\* EFTClient._request: every exception becomes an error dict
ClientRequest(gs, n, w) ==
    IF SendRaises(Headers(gs, n), w) THEN Returned(Obj("error" :> Str("RequestException")))
    ELSE ClientDecoded[w]

(***************************************************************************)
(* EFTClient (eft_api_client)                                              *)
(***************************************************************************)
\* EFTClient._request
ApiRequest(sid, w) ==
    IF SendRaises(ApiHeaders(sid), w) THEN Raised("RequestException")
    ELSE ApiDecoded[w]

\* EFTClient.login: what it reports and the session id it leaves stored
ApiLogin(sid, w) ==
    LET r == ApiRequest(sid, w) IN
    IF r.kind = "raise" THEN [ret |-> Returned(PyFalse), session_id |-> sid]
    ELSE IF ~IsDict(r.val) THEN [ret |-> Returned(PyFalse), session_id |-> sid]
    ELSE IF Get(r.val, "err") = Num(0) /\ HasKey(r.val, "data")
    THEN LET d == r.val.m["data"] IN
         \* "session" in d raises on None and numbers, d["session"] raises on a string
         IF ~IsDict(d) THEN [ret |-> Returned(PyFalse), session_id |-> sid]
         ELSE IF ~HasKey(d, "session") THEN [ret |-> Returned(PyFalse), session_id |-> sid]
         ELSE LET x == d.m["session"] IN
              \* the session id is stored, then its first 20 characters are printed
              IF ~Sliceable(x) THEN [ret |-> Returned(PyFalse), session_id |-> x]
              ELSE [ret |-> Returned(PyTrue), session_id |-> x]
    ELSE [ret |-> Returned(PyFalse), session_id |-> sid]

(***************************************************************************)
(* TarkovDevClient (tarkov_api_client)                                     *)
(***************************************************************************)
\* TarkovDevClient.__init__: the headers of the session
TarkovHeaders == ("Content-Type" :> Str("application/json"))
                 @@ ("Accept" :> Str("application/json"))
\* TarkovDevClient._query: the payload posted (the query text stands as the field it asks for)
QueryPayload(f) == "query" :> Str(f)
QueryRequest(f) == Request("POST", "/graphql", TarkovHeaders, QueryPayload(f), Num(30))

\* TarkovDevClient._query
_query(w) == IF w.exc THEN Raised("RequestException") ELSE QueryDecoded[w]

\* get_all_items, get_all_maps, ...: result.get("data", {}).get(f, [])
get_all(f, w) ==
    LET result == _query(w) IN
    IF result.kind = "raise" THEN result
    ELSE IF ~IsDict(result.val) THEN Raised("AttributeError")
    ELSE LET data == IF HasKey(result.val, "data") THEN result.val.m["data"] ELSE Obj(<<>>) IN
         IF ~IsDict(data) THEN Raised("AttributeError")
         ELSE Returned(IF HasKey(data, f) THEN data.m[f] ELSE List(<<>>))

\* len(v) is defined
HasLen(v) == v.t \in {"str", "list", "obj"}
\* v[:k] of a list
Slice(v, k) == SubSeq(v.m, 1, IF Len(v.m) < k THEN Len(v.m) ELSE k)
\* for x in items: x[k] for the keys k, runs through without raising
Subscripts(items, keys) ==
    \A i \in 1..Len(items) : IsDict(items[i]) /\ keys \subseteq DOMAIN items[i].m

(***************************************************************************)
(* Decoder study: every decoding path applied to every body.               *)
(***************************************************************************)
NotDecoded == [path |-> "none", out |-> Raised("")]

Idle == /\ pc = "lib" /\ token = PyNone /\ game_session = PyNone /\ request_id = 0
        /\ session_id = PyNone /\ op = "none" /\ ret = NoCall /\ outbound = <<>>
        /\ request_ids = <<>> /\ idx = 0 /\ output = <<>> /\ report = <<>>
        /\ hw_code = "" /\ storage = <<>> /\ launchers = <<>> /\ args = <<>>
        /\ printed = "" /\ received = <<>>

InitDecode == /\ prog = "decode" /\ Idle
              /\ wire \in Wires /\ decoded = NotDecoded

UnchangedObjects == UNCHANGED <<prog, pc, token, game_session, request_id, session_id,
                                op, ret, outbound, request_ids, idx, output, report,
                                hw_code, storage, launchers, args, printed, received>>

DecodeLauncher == /\ prog = "decode"
                  /\ decoded' = [path |-> "launcher", out |-> LauncherDecode(wire)]
                  /\ UNCHANGED wire /\ UnchangedObjects
DecodeClient == /\ prog = "decode"
                /\ decoded' = [path |-> "client", out |-> ClientDecode(wire)]
                /\ UNCHANGED wire /\ UnchangedObjects
DecodeApi == /\ prog = "decode"
             /\ decoded' = [path |-> "api", out |-> ApiDecode(wire)]
             /\ UNCHANGED wire /\ UnchangedObjects

NextDecode == DecodeLauncher \/ DecodeClient \/ DecodeApi
SpecDecode == InitDecode /\ [][NextDecode]_vars

(***************************************************************************)
(* json.dump(data, f, indent=2, ensure_ascii=False)                        *)
(***************************************************************************)
NL == "\n"
Indent(k) == [i \in 1..(2 * k) |-> Space]

RECURSIVE Pretty(_, _), PrettyMembers(_, _, _, _), PrettyItems(_, _, _)
Pretty(v, lvl) ==
    CASE v.t = "null" -> <<"null">>
      [] v.t = "num" -> <<NumText(v.n)>>
      [] v.t = "str" -> <<Quote(v.s)>>
      [] v.t = "bool" -> <<IF v.n = 1 THEN "true" ELSE "false">>
      [] v.t = "list" -> IF v.m = <<>> THEN <<"[", "]">>
                         ELSE <<"[">> \o PrettyItems(v, 1, lvl + 1)
                              \o <<NL>> \o Indent(lvl) \o <<"]">>
      [] OTHER -> IF DOMAIN v.m = {} THEN <<"{", "}">>
                  ELSE <<"{">> \o PrettyMembers(v, 1, TRUE, lvl + 1)
                       \o <<NL>> \o Indent(lvl) \o <<"}">>

PrettyMembers(v, k, first, lvl) ==
    IF k > Len(KeyOrder) THEN <<>>
    ELSE IF ~HasKey(v, KeyOrder[k]) THEN PrettyMembers(v, k + 1, first, lvl)
    ELSE (IF first THEN <<>> ELSE <<",">>) \o <<NL>> \o Indent(lvl)
         \o <<Quote(KeyOrder[k]), ":", Space>> \o Pretty(v.m[KeyOrder[k]], lvl)
         \o PrettyMembers(v, k + 1, FALSE, lvl)

PrettyItems(v, k, lvl) ==
    IF k > Len(v.m) THEN <<>>
    ELSE (IF k = 1 THEN <<>> ELSE <<",">>) \o <<NL>> \o Indent(lvl)
         \o Pretty(v.m[k], lvl) \o PrettyItems(v, k + 1, lvl)

\* a save that opens the file for appending
save_response_Append(dir, data, filename) ==
    (filename :> ((IF filename \in DOMAIN dir THEN dir[filename] ELSE <<>>) \o Pretty(data, 0)))
    @@ dir
\* EFTClient.save_response / EFTClient.save_to_file: the directory after the write
save_response(dir, data, filename) == (filename :> Pretty(data, 0)) @@ dir

(***************************************************************************)
(* EFTLauncher.__init__: the device identifier and its file.               *)
(* A file's content is a sequence of units: a code, or white space.        *)
(***************************************************************************)
\* EFTLauncher._safe_email
_safe_email(email) == SubSeq(Md5Hex[email], 1, 12)
\* EFTLauncher.__init__: storage_path, and hw_file of _get_or_create_hw_code
storage_path(email) == ".eft_storage/" \o _safe_email(email)
HwFile(email) == storage_path(email) \o "/hwcode.txt"

WhiteSpace == {Space, NL}
\* str.strip
RECURSIVE LStrip(_)
LStrip(txt) == IF txt # <<>> /\ Head(txt) \in WhiteSpace THEN LStrip(Tail(txt)) ELSE txt
RECURSIVE RStrip(_)
RStrip(txt) ==
    IF txt # <<>> /\ txt[Len(txt)] \in WhiteSpace THEN RStrip(SubSeq(txt, 1, Len(txt) - 1))
    ELSE txt
Strip(txt) == RStrip(LStrip(txt))

\* a lookup that generates a code whatever the storage holds
_get_or_create_hw_code_Always(files, email, fresh) ==
    [hw_code |-> fresh, storage |-> (HwFile(email) :> <<fresh>>) @@ files, generated |-> TRUE]
\* EFTLauncher._get_or_create_hw_code; fresh is the code _generate_hw_code would return
_get_or_create_hw_code(files, email, fresh) ==
    IF HwFile(email) \in DOMAIN files
    THEN [hw_code |-> Join(Strip(files[HwFile(email)]), 1, Len(Strip(files[HwFile(email)]))),
          storage |-> files, generated |-> FALSE]
    ELSE [hw_code |-> fresh, storage |-> (HwFile(email) :> <<fresh>>) @@ files,
          generated |-> TRUE]

\* EFTLauncher.__init__: the object constructed and the storage it leaves
Construct(files, email, fresh) ==
    LET g == _get_or_create_hw_code(files, email, fresh) IN
    [hw_code |-> g.hw_code, storage |-> g.storage,
     launcher |-> [email |-> email, storage_path |-> storage_path(email),
                   hw_code |-> g.hw_code, generated |-> g.generated]]

(***************************************************************************)
(* The calls, as steps on the objects' fields.                             *)
(***************************************************************************)
LoginStep(w) ==
    LET o == login(token, w) IN
    /\ op' = "login" /\ ret' = o.ret /\ token' = o.token
    /\ outbound' = <<Request("POST", "/launcher/login", LauncherHeaders(token),
                              LoginData(EMAIL, hw_code), Num(30))>>
    /\ printed' = LoginPrinted(token, w)
    /\ UNCHANGED <<game_session, request_id, session_id, request_ids, hw_code>>

\* an activation that stores the token of the answer, as login does
ActivateHardwareStep_StoresToken(code, w) ==
    /\ op' = "activate_hardware" /\ ret' = activate_hardware(token, w)
    /\ token' = login(token, w).token
    /\ outbound' = <<Request("POST", "/launcher/hardwareCode/activate", LauncherHeaders(token),
                              ActivateData(EMAIL, hw_code, code), Num(30))>>
    /\ printed' = ""
    /\ UNCHANGED <<game_session, request_id, session_id, request_ids, hw_code>>

ActivateHardwareStep(code, w) ==
    /\ op' = "activate_hardware" /\ ret' = activate_hardware(token, w)
    /\ outbound' = <<Request("POST", "/launcher/hardwareCode/activate", LauncherHeaders(token),
                              ActivateData(EMAIL, hw_code, code), Num(30))>>
    /\ printed' = ""
    /\ UNCHANGED <<token, game_session, request_id, session_id, request_ids, hw_code>>

StartGameStep(w) ==
    LET o == start_game(token, game_session, hw_code, w) IN
    /\ op' = "start_game" /\ ret' = o.ret /\ game_session' = o.game_session
    /\ outbound' = o.out
    /\ printed' = ""
    /\ UNCHANGED <<token, request_id, session_id, request_ids, hw_code>>

\* one get_* call of the bsg EFTClient
ClientStep(path, w) ==
    /\ op' = "get" /\ ret' = ClientRequest(game_session, request_id, w)
    /\ request_id' = NextRequestId(request_id)
    /\ outbound' = <<Request("GET", path, Headers(game_session, request_id), NoBody, Num(60))>>
    /\ request_ids' = Append(request_ids, NextRequestId(request_id))
    /\ printed' = ""
    /\ UNCHANGED <<token, game_session, session_id, hw_code>>

ApiLoginStep(w) ==
    LET o == ApiLogin(session_id, w) IN
    /\ op' = "login" /\ ret' = o.ret /\ session_id' = o.session_id
    /\ outbound' = <<Request("POST", "/launcher/login", ApiHeaders(session_id),
                              ApiLoginData(EMAIL), PyNone)>>
    /\ printed' = ""
    /\ UNCHANGED <<token, game_session, request_id, request_ids, hw_code>>

\* one get_* call of the api EFTClient
ApiStep(path, w) ==
    /\ op' = "get" /\ ret' = ApiRequest(session_id, w)
    /\ outbound' = <<Request("GET", path, ApiHeaders(session_id), NoBody, PyNone)>>
    /\ printed' = ""
    /\ UNCHANGED <<token, game_session, request_id, session_id, request_ids, hw_code>>

(***************************************************************************)
(* The endpoints lists of the two main() functions.                        *)
(***************************************************************************)
Entry(name, path) == [name |-> name, path |-> path]
BsgEndpoints ==
    <<Entry("globals", "/client/globals"), Entry("items", "/client/items"),
      Entry("locale_en", "/client/locale/en"),
      Entry("achievements", "/client/achievement/list"),
      Entry("achievement_stats", "/client/achievement/statistic"),
      Entry("survey", "/client/survey"), Entry("locations", "/client/locations"),
      Entry("hideout_areas", "/client/hideout/areas"),
      Entry("hideout_settings", "/client/hideout/settings"),
      Entry("hideout_recipes", "/client/hideout/production/recipes"),
      Entry("customization", "/client/customization")>>
ApiEndpoints ==
    <<Entry("globals", "/client/globals"), Entry("items", "/client/items"),
      Entry("locations", "/client/locations"), Entry("locale_en", "/client/locale/en"),
      Entry("achievements", "/client/achievement/list"),
      Entry("achievement_stats", "/client/achievement/statistic"),
      Entry("hideout_areas", "/client/hideout/areas"),
      Entry("hideout_settings", "/client/hideout/settings"),
      Entry("hideout_recipes", "/client/hideout/production/recipes"),
      Entry("customization", "/client/customization"), Entry("survey", "/client/survey")>>
\* main() of tarkov_api_client: the datasets, each with the field its query asks for
TarkovDatasets ==
    <<Entry("items", "items"), Entry("maps", "maps"), Entry("traders", "traders"),
      Entry("tasks", "tasks"), Entry("hideout", "hideoutStations"),
      Entry("bosses", "bosses"), Entry("ammo", "ammo"), Entry("barters", "barters")>>
LANG == "en"
\* the entries a run of the model iterates over
Endpoints(p) ==
    SubSeq(IF p = "bsg" THEN BsgEndpoints
           ELSE IF p = "tarkov" THEN TarkovDatasets ELSE ApiEndpoints, 1, MaxEntries)
\* the file an entry is saved under
FileName(p, name) == IF p = "tarkov" THEN name \o "_" \o LANG \o ".json" ELSE name \o ".json"

(***************************************************************************)
(* The objects driven call by call, in any order.                          *)
(***************************************************************************)
UnchangedRun == UNCHANGED <<prog, pc, idx, output, report, wire, decoded,
                            storage, launchers, args, received>>

Init == /\ prog \in {"bsg", "api"}
        /\ pc = "lib" /\ token = PyNone /\ game_session = PyNone /\ request_id = 0
        /\ session_id = PyNone /\ op = "none" /\ ret = NoCall /\ outbound = <<>>
        /\ request_ids = <<>> /\ idx = 0 /\ output = <<>> /\ report = <<>>
        /\ args = <<>> /\ printed = "" /\ received = <<>>
        /\ wire = TransportFailure /\ decoded = NotDecoded
        \* eft_bsg_client: the launcher has been constructed, on an empty storage root
        /\ \E h \in HwCodes :
              LET c == Construct(<<>>, EMAIL, h) IN
              IF prog = "bsg"
              THEN hw_code = c.hw_code /\ storage = c.storage /\ launchers = <<c.launcher>>
              ELSE hw_code = "" /\ storage = <<>> /\ launchers = <<>>

Login == /\ prog = "bsg" /\ pc = "lib"
         /\ \E w \in LifecycleWires : LoginStep(w)
         /\ UnchangedRun
ActivateHardware == /\ prog = "bsg" /\ pc = "lib"
                    /\ \E code \in ActivateCodes, w \in LifecycleWires :
                           ActivateHardwareStep(code, w)
                    /\ UnchangedRun
StartGame == /\ prog = "bsg" /\ pc = "lib"
             /\ \E w \in LifecycleWires : StartGameStep(w)
             /\ UnchangedRun
ClientGet == /\ prog = "bsg" /\ pc = "lib"
             /\ request_id < MaxRequests /\ Len(request_ids) < MaxRequests
             /\ \E i \in 1..Len(Endpoints("bsg")), w \in FetchWires :
                    ClientStep(Endpoints("bsg")[i].path, w)
             /\ UnchangedRun
ApiClientLogin == /\ prog = "api" /\ pc = "lib"
                  /\ \E w \in LifecycleWires : ApiLoginStep(w)
                  /\ UnchangedRun
ApiClientGet == /\ prog = "api" /\ pc = "lib"
                /\ \E i \in 1..Len(Endpoints("api")), w \in FetchWires :
                       ApiStep(Endpoints("api")[i].path, w)
                /\ UnchangedRun

Next == \/ Login \/ ActivateHardware \/ StartGame \/ ClientGet
        \/ ApiClientLogin \/ ApiClientGet
Spec == Init /\ [][Next]_vars

(***************************************************************************)
(* EFTLauncher.login called again and again, each answer kept in wire.     *)
(***************************************************************************)
LoginCall == /\ prog = "bsg" /\ pc = "lib"
             /\ \E w \in LifecycleWires : LoginStep(w) /\ wire' = w
             /\ UNCHANGED <<prog, pc, idx, output, report, decoded,
                            storage, launchers, args, received>>
InitLogin == Init /\ prog = "bsg"
SpecLogin == InitLogin /\ [][LoginCall]_vars

(***************************************************************************)
(* main() of eft_bsg_client and of eft_api_client, statement by statement. *)
(***************************************************************************)
UnchangedStudy == UNCHANGED <<prog, wire, decoded>>

Line(name, outcome) == [name |-> name, outcome |-> outcome]

\* where main() goes after a lifecycle call: on, out by return, or out by the exception
After(r, onward) ==
    IF r = Returned(PyTrue) THEN onward
    ELSE IF r.kind = "raise" THEN "crashed" ELSE "done"

\* "err" in data, for the values json.loads can give
ErrIn(data) == IF IsDict(data) THEN HasKey(data, "err") ELSE data.s \in {"err", "errmsg"}

\* a loop body that saves the data member of the answer instead of the answer
BsgEntry_SavesData(dir, name, r) ==
    IF ~IsDict(r.val) THEN [line |-> Line(name, "exception"), dir |-> dir]
    ELSE IF Get(r.val, "err") = Num(0)
    THEN [line |-> Line(name, "saved"),
          dir |-> save_response(dir, Get(r.val, "data"), name \o ".json")]
    ELSE [line |-> Line(name, "error"), dir |-> dir]
\* main() of eft_bsg_client, the body of the loop: the line printed and the directory left
BsgEntry(dir, name, r) ==
    IF ~IsDict(r.val) THEN [line |-> Line(name, "exception"), dir |-> dir]
    ELSE IF Get(r.val, "err") = Num(0)
    THEN [line |-> Line(name, "saved"), dir |-> save_response(dir, r.val, name \o ".json")]
    ELSE [line |-> Line(name, "error"), dir |-> dir]

\* main() of eft_api_client, the body of the loop
ApiEntry(dir, name, r) ==
    IF r.kind = "raise" THEN [line |-> Line(name, "exception"), dir |-> dir]
    ELSE IF r.val.t \in {"null", "num", "bool"}
    THEN [line |-> Line(name, "exception"), dir |-> dir]
    ELSE IF ErrIn(r.val) /\ ~IsDict(r.val)
    THEN [line |-> Line(name, "exception"), dir |-> dir]
    ELSE IF ErrIn(r.val) /\ r.val.m["err"] # Num(0)
    THEN [line |-> Line(name, "error"), dir |-> dir]
    ELSE [line |-> Line(name, "saved"), dir |-> save_response(dir, r.val, name \o ".json")]

\* TarkovDevClient.save_to_file: the directory after the write
save_to_file(dir, data, filename) == (filename :> Pretty(data, 0)) @@ dir

\* a loop body that saves only what has a length
TarkovEntry_CheckFirst(dir, name, r) ==
    IF r.kind = "raise" \/ ~HasLen(r.val) THEN [line |-> Line(name, "exception"), dir |-> dir]
    ELSE [line |-> Line(name, "saved"), dir |-> save_to_file(dir, r.val, FileName("tarkov", name))]
\* main() of tarkov_api_client, the body of the loop: the data is saved, then counted
TarkovEntry(dir, name, r) ==
    IF r.kind = "raise" THEN [line |-> Line(name, "exception"), dir |-> dir]
    ELSE IF ~HasLen(r.val)
    THEN [line |-> Line(name, "exception"),
          dir |-> save_to_file(dir, r.val, FileName("tarkov", name))]
    ELSE [line |-> Line(name, "saved"), dir |-> save_to_file(dir, r.val, FileName("tarkov", name))]

\* a loop that stops at the first entry that is not saved
LoopNext_Abort(p, line, i) ==
    IF line.outcome # "saved" THEN "done"
    ELSE IF i < Len(Endpoints(p)) THEN "fetch"
    ELSE IF p = "tarkov" THEN "examples" ELSE "done"
\* the for loops of the three main(): where the run goes after entry i
LoopNext(p, line, i) ==
    IF i < Len(Endpoints(p)) THEN "fetch"
    ELSE IF p = "tarkov" THEN "examples" ELSE "done"

InitMain == /\ prog \in {"bsg", "api", "tarkov"}
            /\ pc = IF prog = "bsg" THEN "config" ELSE IF prog = "tarkov" THEN "fetch" ELSE "login"
            /\ token = PyNone /\ game_session = PyNone /\ request_id = 0
            /\ session_id = PyNone /\ op = "none" /\ ret = NoCall /\ outbound = <<>>
            /\ request_ids = <<>> /\ idx = (IF prog = "tarkov" THEN 1 ELSE 0)
            /\ output = <<>> /\ report = <<>>
            /\ wire = TransportFailure /\ decoded = NotDecoded
            /\ hw_code = "" /\ launchers = <<>> /\ args = <<>>
            /\ printed = "" /\ received = <<>>
            /\ storage \in IF prog = "bsg"
                            THEN {<<>>} \cup {HwFile(EMAIL) :> <<h>> : h \in HwCodes}
                            ELSE {<<>>}

\* eft_bsg_client: main() returns at once while the credentials are the placeholders
MainConfig ==
    /\ prog = "bsg" /\ pc = "config"
    /\ \E configured \in BOOLEAN, h \in HwCodes :
          IF configured
          THEN LET c == Construct(storage, EMAIL, h) IN
               /\ pc' = "login" /\ hw_code' = c.hw_code /\ storage' = c.storage
               /\ launchers' = Append(launchers, c.launcher)
          ELSE pc' = "done" /\ UNCHANGED <<hw_code, storage, launchers>>
    /\ UNCHANGED <<token, game_session, request_id, session_id, op, ret, outbound,
                   request_ids, idx, output, report, args, printed, received>>
    /\ UnchangedStudy

MainLogin ==
    /\ prog = "bsg" /\ pc = "login"
    /\ \E w \in LifecycleWires : LoginStep(w)
    /\ pc' = After(ret', "start_game")
    /\ UNCHANGED <<idx, output, report, storage, launchers, args, received>> /\ UnchangedStudy

MainStartGame ==
    /\ prog = "bsg" /\ pc = "start_game"
    /\ \E w \in LifecycleWires : StartGameStep(w)
    /\ pc' = After(ret', "fetch")
    /\ idx' = 1
    /\ UNCHANGED <<output, report, storage, launchers, args, received>> /\ UnchangedStudy

MainFetch ==
    /\ prog = "bsg" /\ pc = "fetch" /\ idx <= Len(Endpoints("bsg"))
    /\ \E w \in FetchWires : ClientStep(Endpoints("bsg")[idx].path, w) /\ wire' = w
    /\ LET e == BsgEntry(output, Endpoints("bsg")[idx].name, ret')
       IN /\ output' = e.dir /\ report' = Append(report, e.line)
          /\ args' = IF e.line.outcome = "saved"
                     THEN <<ret'.val, FileName("bsg", Endpoints("bsg")[idx].name)>> ELSE args
          /\ pc' = LoopNext("bsg", e.line, idx)
    /\ received' = Append(received, wire')
    /\ idx' = idx + 1
    /\ UNCHANGED <<prog, decoded, storage, launchers>>

MainApiLogin ==
    /\ prog = "api" /\ pc = "login"
    /\ \E w \in LifecycleWires : ApiLoginStep(w)
    /\ pc' = After(ret', "fetch")
    /\ idx' = 1
    /\ UNCHANGED <<output, report, storage, launchers, args, received>> /\ UnchangedStudy

MainApiFetch ==
    /\ prog = "api" /\ pc = "fetch" /\ idx <= Len(Endpoints("api"))
    /\ \E w \in FetchWires : ApiStep(Endpoints("api")[idx].path, w) /\ wire' = w
    /\ LET e == ApiEntry(output, Endpoints("api")[idx].name, ret')
       IN /\ output' = e.dir /\ report' = Append(report, e.line)
          /\ args' = IF e.line.outcome = "saved"
                     THEN <<ret'.val, FileName("api", Endpoints("api")[idx].name)>> ELSE args
          /\ pc' = LoopNext("api", e.line, idx)
    /\ received' = Append(received, wire')
    /\ idx' = idx + 1
    /\ UNCHANGED <<prog, decoded, storage, launchers>>

UnchangedVendor == UNCHANGED <<token, game_session, request_id, session_id, request_ids,
                               hw_code, storage, launchers, printed>>

MainTarkovFetch ==
    /\ prog = "tarkov" /\ pc = "fetch" /\ idx <= Len(Endpoints("tarkov"))
    /\ \E w \in TarkovWires(Endpoints("tarkov")[idx].path) :
          /\ wire' = w /\ op' = "get"
          /\ ret' = get_all(Endpoints("tarkov")[idx].path, w)
    /\ outbound' = <<QueryRequest(Endpoints("tarkov")[idx].path)>>
    /\ LET e == TarkovEntry(output, Endpoints("tarkov")[idx].name, ret')
       IN /\ output' = e.dir /\ report' = Append(report, e.line)
          /\ args' = IF ret'.kind = "return"
                     THEN <<ret'.val, FileName("tarkov", Endpoints("tarkov")[idx].name)>>
                     ELSE args
          /\ pc' = LoopNext("tarkov", e.line, idx)
    /\ received' = Append(received, wire')
    /\ idx' = idx + 1
    /\ UNCHANGED <<prog, decoded>> /\ UnchangedVendor

\* for item in results[:k]: item[key] for the keys, runs through without raising
Printable(r, k, keys) ==
    /\ r.kind = "return"
    /\ \/ r.val.t = "str" /\ r.val.s = ""
       \/ r.val.t = "list" /\ Subscripts(Slice(r.val, k), keys)

\* main() of tarkov_api_client after the loop: search_items, and the items printed;
\* none of it is guarded, an exception ends the run
MainTarkovSearch ==
    /\ prog = "tarkov" /\ pc = "examples"
    /\ \E w \in TarkovWires("items") : wire' = w /\ ret' = get_all("items", w)
    /\ op' = "search_items" /\ outbound' = <<QueryRequest("items")>>
    /\ pc' = IF ~Printable(ret', 5, {"name", "shortName", "basePrice"}) THEN "crashed"
             ELSE IF Truthy(ret'.val) THEN "prices" ELSE "done"
    /\ UNCHANGED <<prog, decoded, idx, output, report, args, received>> /\ UnchangedVendor

\* get_flea_prices for the first three items found (ret holds them), and the prices printed
MainTarkovPrices ==
    /\ prog = "tarkov" /\ pc = "prices"
    /\ IF ~Subscripts(Slice(ret.val, 3), {"id"})
       THEN pc' = "crashed" /\ UNCHANGED <<wire, ret, op, outbound>>
       ELSE /\ \E w \in TarkovWires("items") : wire' = w /\ ret' = get_all("items", w)
            /\ op' = "get_flea_prices" /\ outbound' = <<QueryRequest("items")>>
            /\ pc' = IF /\ ret'.kind = "return"
                        /\ \/ ret'.val.t = "str" /\ ret'.val.s = ""
                           \/ ret'.val.t = "obj" /\ DOMAIN ret'.val.m = {}
                           \/ /\ ret'.val.t = "list"
                              /\ Subscripts(ret'.val.m, {"name", "avg24hPrice"})
                     THEN "done" ELSE "crashed"
    /\ UNCHANGED <<prog, decoded, idx, output, report, args, received>> /\ UnchangedVendor

NextMain == \/ MainConfig \/ MainLogin \/ MainStartGame \/ MainFetch
            \/ MainApiLogin \/ MainApiFetch
            \/ MainTarkovFetch \/ MainTarkovSearch \/ MainTarkovPrices
SpecMain == InitMain /\ [][NextMain]_vars

(***************************************************************************)
(* EFTLauncher objects constructed one after the other on one storage root.*)
(***************************************************************************)
\* what an identifier file left by an earlier run can hold
OldFiles == {<<"#1-aa", NL>>, <<>>}
InitDevice == /\ prog = "device" /\ Idle
              /\ wire = TransportFailure /\ decoded = NotDecoded
NewLauncher ==
    /\ prog = "device" /\ Len(launchers) < MaxLaunchers
    /\ \E email \in Emails, fresh \in HwCodes :
          LET c == Construct(storage, email, fresh) IN
          /\ hw_code' = c.hw_code /\ storage' = c.storage
          /\ launchers' = Append(launchers, c.launcher)
    /\ UNCHANGED <<prog, pc, token, game_session, request_id, session_id, op, ret, outbound,
                   request_ids, idx, output, report, wire, decoded, args, printed, received>>
\* an identifier file is there before the first construction
OldFile ==
    /\ prog = "device" /\ launchers = <<>> /\ storage = <<>>
    /\ \E email \in Emails, txt \in OldFiles : storage' = (HwFile(email) :> txt)
    /\ UNCHANGED <<prog, pc, token, game_session, request_id, session_id, op, ret, outbound,
                   request_ids, idx, output, report, wire, decoded, args, printed, received,
                   hw_code, launchers>>
NextDevice == NewLauncher \/ OldFile
SpecDevice == InitDevice /\ [][NextDevice]_vars

(***************************************************************************)
(* save_response / save_to_file called again and again on one directory.   *)
(***************************************************************************)
Stale == <<"<">>
StoreValues == {PyNone, OkEnvelope, Obj(<<>>), List(<<>>), Str("t1")}
StoreNames(p) == {FileName(p, Endpoints(p)[i].name) : i \in 1..Len(Endpoints(p))}
\* the directory before the first call: empty, or holding the files of an earlier run
InitStore == /\ prog \in {"bsg", "api", "tarkov"} /\ Idle
             /\ wire = TransportFailure /\ decoded = NotDecoded
UnchangedStore ==
    UNCHANGED <<prog, pc, token, game_session, request_id, session_id, op, ret, outbound,
                request_ids, idx, report, wire, decoded, hw_code, storage, launchers,
                printed, received>>
EarlierRun ==
    /\ pc = "lib" /\ args = <<>> /\ output = <<>>
    /\ output' = [f \in StoreNames(prog) |-> Stale]
    /\ UNCHANGED args /\ UnchangedStore
VendorSave ==
    /\ pc = "lib" /\ prog \in {"bsg", "api"}
    /\ \E data \in StoreValues, filename \in StoreNames(prog) :
          /\ output' = save_response(output, data, filename)
          /\ args' = <<data, filename>>
    /\ UnchangedStore
TarkovSave ==
    /\ pc = "lib" /\ prog = "tarkov"
    /\ \E data \in StoreValues, filename \in StoreNames(prog) :
          /\ output' = save_to_file(output, data, filename)
          /\ args' = <<data, filename>>
    /\ UnchangedStore
NextStore == EarlierRun \/ VendorSave \/ TarkovSave
SpecStore == InitStore /\ [][NextStore]_vars

(***************************************************************************)
(* Properties.                                                             *)
(***************************************************************************)
Lifecycle == {"login", "activate_hardware", "start_game"}

\* the text a body decodes to: the decompressed stream, or the body itself
BodyText(b) == IF ZlibOk(b) THEN Decompress(b) ELSE b
\* the body's text is not valid JSON
NotJson(b) == ~(Utf8Ok(BodyText(b)) /\ JsonOk(BodyText(b)))

\* v is a decode-failure value carrying at most RawCap characters of the text of body b
DecodeFailure(v, b) ==
    /\ IsDict(v) /\ HasKey(v, "error") /\ HasKey(v, "raw")
    /\ \E k \in 0..RawCap :
          /\ k <= Len(b)
          /\ v.m["raw"] = Str(Join(ResponseText(b), 1, k))

\* C1: start_game called while no access token is stored reports failure, sends no
\* request and leaves both tokens as they were
C1_StartGameUnauthenticated ==
    [][(op' = "start_game" /\ token = PyNone)
          => /\ ret' = Returned(PyFalse)
             /\ outbound' = <<>>
             /\ token' = token /\ game_session' = game_session]_vars
C1_Witness == /\ prog = "bsg" /\ op = "start_game" /\ token = PyNone
              /\ ret = Returned(PyFalse) /\ outbound = <<>>

\* C2: a lifecycle call that does not report success leaves every stored token as it was
C2_FailedCallKeepsState ==
    [][(op' \in Lifecycle /\ ret' # Returned(PyTrue))
          => /\ token' = token /\ game_session' = game_session
             /\ session_id' = session_id]_vars

\* C3: login reports success only with an access token stored, start_game only with a
\* game-session token stored
C3_SuccessHoldsToken ==
    /\ (prog = "bsg" /\ op = "login" /\ ret = Returned(PyTrue)) => token # PyNone
    /\ (prog = "bsg" /\ op = "start_game" /\ ret = Returned(PyTrue)) => game_session # PyNone
    /\ (prog = "api" /\ op = "login" /\ ret = Returned(PyTrue)) => session_id # PyNone

\* C4: a stored access token is never replaced by an absent one, nor a stored
\* game-session token
C4_ForwardOnly ==
    [][/\ token # PyNone => token' # PyNone
       /\ game_session # PyNone => game_session' # PyNone]_vars

\* C5: in a run of main(), a /client/* request is sent only while a game-session token
\* is stored
C5_FetchOnlyInGame ==
    /\ (prog = "bsg" /\ op = "get") => (token # PyNone /\ game_session # PyNone)
    /\ (prog = "api" /\ op = "get") => session_id # PyNone

\* C6: every request carries the header set of the state it is sent in: Authorization
\* exactly when an access token is stored, a PHPSESSID cookie exactly when a
\* game-session token is stored
C6_HeadersMatchState ==
    [][\A i \in 1..Len(outbound') :
          LET h == outbound'[i].headers
              gs == IF prog = "bsg" THEN game_session ELSE session_id
          IN /\ prog = "bsg" =>
                   IF token = PyNone THEN "Authorization" \notin DOMAIN h
                   ELSE "Authorization" \in DOMAIN h /\ h["Authorization"] = token
             /\ IF gs = PyNone \/ (prog = "bsg" /\ token = PyNone)
                THEN "Cookie" \notin DOMAIN h
                ELSE "Cookie" \in DOMAIN h /\ h["Cookie"] = Str("PHPSESSID=" \o PyStr(gs))]_vars

\* C7: the GClient-RequestId values sent through one client are strictly increasing in
\* send order, one step of the counter per request, whatever the requests returned
C7_RequestIdsIncrease ==
    /\ \A i, j \in 1..Len(request_ids) : i < j => request_ids[i] < request_ids[j]
    /\ Len(request_ids) = request_id
    /\ (prog = "bsg" /\ op = "get")
          => outbound[1].headers["GClient-RequestId"] = Str(NumText(request_ids[Len(request_ids)]))
C7_Witness == /\ prog = "bsg" /\ op = "get" /\ Len(request_ids) >= 2
              /\ ret = Returned(Obj("error" :> Str("RequestException")))

\* C8: a body whose text is not valid JSON makes every decoding path return a
\* decode-failure value with a prefix of at most 500 characters of the raw text; no path raises
C8_DecodeFailureValue ==
    (decoded.path # "none" /\ NotJson(wire.body))
        => (decoded.out.kind = "return" /\ DecodeFailure(decoded.out.val, wire.body))

\* C9: each decoding path returns v for the compressed JSON text of v and for the plain one
C9_RoundTrip ==
    \A v \in JsonValues :
        (decoded.path # "none" /\ wire.body \in {Dumps(v), Compress(Dumps(v))})
            => decoded.out = Returned(v)
C9_Witness == /\ decoded.path = "client" /\ wire.body = Dumps(Obj(("err" :> Num(0)) @@ ("data" :> Obj("session" :> Str("t1")))))
              /\ decoded.out.kind = "return"


\* C10: in a run of main(), an entry whose body cannot be decoded is reported as a
\* failure and no file is written for it
C10_UndecodableNotSaved ==
    (pc \in {"fetch", "done"} /\ Len(report) > 0 /\ ~wire.exc /\ NotJson(wire.body))
        => /\ report[Len(report)].outcome # "saved"
           /\ (report[Len(report)].name \o ".json") \notin DOMAIN output

\* C13: the device identifier of a constructed launcher never changes, and every login,
\* activation and game-start request carries it: the identifier issued at construction
C13_DeviceIdentifierStable ==
    prog = "bsg" =>
        /\ Len(launchers) = 1 /\ hw_code = launchers[1].hw_code
        /\ op \in Lifecycle =>
              \A i \in 1..Len(outbound) :
                  /\ "hwCode" \in DOMAIN outbound[i].body
                  /\ outbound[i].body["hwCode"] = Str(launchers[1].hw_code)
C13_Witness ==
    /\ prog = "bsg" /\ op = "login" /\ token # PyNone /\ game_session # PyNone
    /\ outbound # <<>> /\ outbound[1].body["hwCode"] = Str("#1-bb")

\* C16: activate_hardware, succeeding or failing, leaves the access token and the
\* game-session token as they were
C16_ActivateKeepsTokens ==
    [][op' = "activate_hardware" => token' = token /\ game_session' = game_session]_vars
C16_Witness ==
    /\ op = "activate_hardware" /\ ret = Returned(PyTrue) /\ token = PyNone
    /\ outbound # <<>>

\* the error code of the answer w, as login reads it
ErrCode(w) == Get(LauncherDecoded[w].val, "err")
\* the answer w is a decoded object that carries a nonzero error code
FailedWith(w) ==
    /\ LauncherDecoded[w].kind = "return" /\ IsDict(LauncherDecoded[w].val)
    /\ ErrCode(w).t = "num" /\ ErrCode(w).n # 0
\* the failure variant an error code stands for
Variant(w) ==
    CASE ErrCode(w) = Num(206) -> <<"CaptchaRequired">>
      [] ErrCode(w) = Num(209) -> <<"HardwareActivationRequired">>
      [] ErrCode(w) = Num(211) -> <<"WrongCredentials">>
      [] OTHER -> <<"Unknown", PyStr(ErrCode(w)),
                    IF HasKey(LauncherDecoded[w].val, "errmsg")
                    THEN PyStr(LauncherDecoded[w].val.m["errmsg"]) ELSE "Unbekannt">>
\* the line that names a variant
VariantLine(v) ==
    CASE v = <<"CaptchaRequired">> -> "[-] Captcha erforderlich - kann nicht automatisiert werden"
      [] v = <<"HardwareActivationRequired">> -> "[!] Hardware-Aktivierung erforderlich!"
      [] v = <<"WrongCredentials">> -> "[-] Falsches Passwort"
      [] OTHER -> "[-] Login fehlgeschlagen: " \o v[2] \o " - " \o v[3]

\* C17 as stated: two failed logins answered with different failure variants return
\* different results to the caller
C17_ResultIdentifiesVariant ==
    [][(/\ op = "login" /\ ret.kind = "return" /\ FailedWith(wire)
        /\ op' = "login" /\ ret'.kind = "return" /\ FailedWith(wire')
        /\ Variant(wire) # Variant(wire'))
          => ret' # ret]_vars

\* C17, amended: a login answered with a nonzero error code returns False whatever the
\* code; the variant is named only by the line printed, and answers of different
\* variants print different lines
C17_FailureVariantPrinted ==
    (op = "login" /\ ret.kind = "return" /\ FailedWith(wire)) =>
        /\ ret = Returned(PyFalse)
        /\ printed = VariantLine(Variant(wire))
        /\ \A w \in LifecycleWires :
              (FailedWith(w) /\ Variant(w) # Variant(wire)) => LoginPrinted(token, w) # printed
C17_Witness ==
    /\ op = "login" /\ ret = Returned(PyFalse) /\ FailedWith(wire)
    /\ ErrCode(wire) = Num(206) /\ token # PyNone

\* the answers that make entry i of program p succeed
OkWires(p, i) ==
    IF p = "tarkov"
    THEN {Response(200, Dumps(v)) : v \in DataPresent(Endpoints(p)[i].path)}
    ELSE {Response(200, Compress(Dumps(OkEnvelope))), Response(200, Dumps(OkEnvelope))}
\* the loop over the entries is over
LoopEnded == pc \in {"done", "crashed", "examples", "prices"}

\* C11: when the loop has ended and exactly one entry k met a transport failure while
\* every other entry was answered well, all N entries were processed, in list order,
\* entry k alone is reported as failed, and each other entry has its file
C11_OneFailureIsolated ==
    \A k \in 1..Len(received) :
        (/\ LoopEnded /\ received[k] = TransportFailure
         /\ \A i \in 1..Len(received) : i # k => received[i] \in OkWires(prog, i))
        => /\ Len(received) = Len(Endpoints(prog)) /\ Len(report) = Len(Endpoints(prog))
           /\ \A i \in 1..Len(report) :
                 /\ report[i].name = Endpoints(prog)[i].name
                 /\ (report[i].outcome = "saved") = (i # k)
                 /\ (FileName(prog, report[i].name) \in DOMAIN output) = (i # k)
C11_Witness ==
    /\ prog = "bsg" /\ pc = "done" /\ Len(received) = Len(Endpoints(prog))
    /\ received[1] = TransportFailure
    /\ \A i \in 2..Len(received) : received[i] \in OkWires(prog, i)
    /\ report[Len(report)].outcome = "saved"

\* the last entry processed was answered {"err": 0, "data": D}
AnsweredWithData ==
    /\ prog \in {"bsg", "api"} /\ op = "get" /\ report # <<>> /\ ret.kind = "return"
    /\ IsDict(ret.val) /\ Get(ret.val, "err") = Num(0) /\ HasKey(ret.val, "data")

\* C12 as stated: the file of an entry answered {"err": 0, "data": D} holds the
\* pretty-printed D
C12_FileHoldsPayload ==
    AnsweredWithData =>
        /\ report[Len(report)].outcome = "saved"
        /\ output[FileName(prog, report[Len(report)].name)] = Pretty(ret.val.m["data"], 0)

\* C12, amended: the file of an entry answered {"err": 0, "data": D} holds the
\* pretty-printed answer as a whole, err and data members included
C12_FileHoldsResponse ==
    AnsweredWithData =>
        /\ report[Len(report)].outcome = "saved"
        /\ output[FileName(prog, report[Len(report)].name)] = Pretty(ret.val, 0)
C12_Witness ==
    /\ AnsweredWithData /\ prog = "bsg" /\ ret.val = OkEnvelope
    /\ output["globals.json"] =
          <<"{", NL, Space, Space, Quote("err"), ":", Space, "0", ",", NL,
            Space, Space, Quote("data"), ":", Space, "{", NL,
            Space, Space, Space, Space, Quote("session"), ":", Space, Quote("t1"), NL,
            Space, Space, "}", NL, "}">>

\* C19: every request a run sends carries a timeout
C19_EveryCallHasTimeout ==
    \A i \in 1..Len(outbound) : outbound[i].timeout # PyNone

\* C20: in a run of the tarkov.dev client a dataset has its file exactly when it is
\* reported as loaded
C20_FileIffLoaded ==
    prog = "tarkov" =>
        \A i \in 1..Len(report) :
            (FileName(prog, report[i].name) \in DOMAIN output) = (report[i].outcome = "saved")

\* C14: a launcher constructed after another with the same email holds the same device
\* identifier: it is loaded, none is generated and the storage is not written
C14_SecondConstructionLoads ==
    [][\A i \in 1..Len(launchers) :
          (/\ Len(launchers') = Len(launchers) + 1
           /\ launchers'[Len(launchers')].email = launchers[i].email)
          => /\ launchers'[Len(launchers')].hw_code = launchers[i].hw_code
             /\ hw_code' = launchers[i].hw_code
             /\ ~launchers'[Len(launchers')].generated
             /\ storage' = storage]_vars
C14_Witness ==
    /\ Len(launchers) = 2 /\ launchers[1].email = launchers[2].email
    /\ launchers[1].generated /\ ~launchers[2].generated
    /\ launchers[2].hw_code = "#1-bb"

\* C15: launchers constructed with different emails keep their identifier in different
\* places, so none of them loads the identifier of another account
C15_PathInjective ==
    \A i, j \in 1..Len(launchers) :
        launchers[i].email # launchers[j].email
        => launchers[i].storage_path # launchers[j].storage_path

\* C18: a save sets the named file to the serialization of the value, whatever the
\* file held, leaves every other file as it was, and saving the same again changes nothing
C18_StoreOverwritesOneFile ==
    [][args' # <<>> /\ (args' # args \/ output' # output)
          => /\ DOMAIN output' = DOMAIN output \cup {args'[2]}
             /\ output'[args'[2]] = Pretty(args'[1], 0)
             /\ \A g \in DOMAIN output : g # args'[2] => output'[g] = output[g]
             /\ save_response(output', args'[1], args'[2]) = output']_vars
C18_Witness ==
    /\ prog = "bsg" /\ args = <<OkEnvelope, "globals.json">>
    /\ output["globals.json"] = Pretty(OkEnvelope, 0)
    /\ "items.json" \in DOMAIN output /\ output["items.json"] = Stale

====
